---- MODULE Spec2Model ----
(***************************************************************************)
(* firestore2csv: export of Firestore collections to CSV files.            *)
(*                                                                         *)
(* Text is a sequence of one-character strings.  A value read from the     *)
(* store (a "wire" value) keeps the order in which the fields of a map     *)
(* were received; snap.Data() turns it into a Go value, whose maps are     *)
(* functions without any order and are ranged over in an arbitrary order.  *)
(***************************************************************************)
EXTENDS Integers, Sequences, FiniteSets, TLC

(***************************************************************************)
(* Bounds of the model.                                                    *)
(***************************************************************************)
\* documents a stream yields at most
MaxDocs == 2
\* rows the csv.Writer's buffer holds at most before a write has to spill
BufRows == 2
\* elements of the arrays and maps given to formatValue at most
MaxElems == 2

(***************************************************************************)
(* Text helpers.                                                           *)
(***************************************************************************)
\* the characters of names, in ascending byte order
Alphabet == <<"B", "_", "a", "b", "c", "d", "i", "o", "u">>

\* the byte-order rank of a character
Code(c) == CHOOSE i \in 1..Len(Alphabet) : Alphabet[i] = c

RECURSIVE StrLess(_, _)
\* s < t for Go strings: byte-wise lexicographic
StrLess(s, t) ==
    IF t = <<>> THEN FALSE
    ELSE IF s = <<>> THEN TRUE
    ELSE IF Head(s) = Head(t) THEN StrLess(Tail(s), Tail(t))
    ELSE Code(Head(s)) < Code(Head(t))

RECURSIVE InsertSorted(_, _)
InsertSorted(x, s) ==
    IF s = <<>> THEN <<x>>
    ELSE IF StrLess(Head(s), x) THEN <<Head(s)>> \o InsertSorted(x, Tail(s))
    ELSE <<x>> \o s

RECURSIVE SortAsc(_)
SortAsc(s) == IF s = <<>> THEN <<>> ELSE InsertSorted(Head(s), SortAsc(Tail(s)))

\* a mutant of SortStrings: the slice is left in the order it was built
SortStringsSkipped(s) == s

\* sort.Strings(fields)
SortStrings(s) == SortAsc(s)

RECURSIVE Flatten(_)
Flatten(ss) == IF ss = <<>> THEN <<>> ELSE Head(ss) \o Flatten(Tail(ss))

RECURSIVE JoinComma(_)
JoinComma(ss) ==
    IF ss = <<>> THEN <<>>
    ELSE IF Len(ss) = 1 THEN ss[1]
    ELSE ss[1] \o <<",">> \o JoinComma(Tail(ss))

Range(s) == {s[i] : i \in DOMAIN s}

\* the order in which a Go range visits the keys K, under the order `iter`
\* the runtime happens to use (a sequence listing every possible key once)
IterOrder(K, iter) == LET In(k) == k \in K IN SelectSeq(iter, In)

DigitChars == <<"0", "1", "2", "3", "4", "5", "6", "7", "8", "9">>

RECURSIVE FormatUint(_)
FormatUint(n) ==
    IF n < 10 THEN <<DigitChars[n + 1]>>
    ELSE FormatUint(n \div 10) \o <<DigitChars[(n % 10) + 1]>>

\* strconv.FormatInt(val, 10)
FormatInt(n) == IF n < 0 THEN <<"-">> \o FormatUint(-n) ELSE FormatUint(n)

RECURSIVE Pow10(_)
Pow10(e) == IF e = 0 THEN 1 ELSE 10 * Pow10(e - 1)

RECURSIVE PadLeft(_, _)
\* s padded with leading zeros to n characters
PadLeft(s, n) == IF Len(s) >= n THEN s ELSE PadLeft(<<"0">> \o s, n)

RECURSIVE TrimZeros(_)
\* s without its trailing zeros
TrimZeros(s) ==
    IF s # <<>> /\ s[Len(s)] = "0" THEN TrimZeros(SubSeq(s, 1, Len(s) - 1)) ELSE s

\* strconv.FormatFloat(val, 'f', -1, 64) of the float64 m * 10^-e (cls "fin"),
\* NaN or an infinity: the shortest fixed-point text, no exponent
FormatFloat(f) ==
    IF f.cls = "NaN" THEN <<"N", "a", "N">>
    ELSE IF f.cls = "+Inf" THEN <<"+", "I", "n", "f">>
    ELSE IF f.cls = "-Inf" THEN <<"-", "I", "n", "f">>
    ELSE LET a    == IF f.m < 0 THEN -f.m ELSE f.m
             int  == FormatUint(a \div Pow10(f.e))
             frac == TrimZeros(PadLeft(FormatUint(a % Pow10(f.e)), f.e))
         IN (IF f.m < 0 THEN <<"-">> ELSE <<>>) \o int
            \o (IF f.e = 0 \/ frac = <<>> THEN <<>> ELSE <<".">> \o frac)

\* val.Format(time.RFC3339Nano) of the UTC instant sec.nsec after the epoch
\* (sec < 60): the fraction is printed without its trailing zeros
FormatTime(sec, nsec) ==
    <<"1", "9", "7", "0", "-", "0", "1", "-", "0", "1", "T", "0", "0", ":", "0", "0", ":">>
    \o PadLeft(FormatUint(sec), 2)
    \o (IF nsec = 0 THEN <<>> ELSE <<".">> \o TrimZeros(PadLeft(FormatUint(nsec), 9)))
    \o <<"Z">>

Base64Chars ==
    <<"A", "B", "C", "D", "E", "F", "G", "H", "I", "J", "K", "L", "M", "N", "O", "P",
      "Q", "R", "S", "T", "U", "V", "W", "X", "Y", "Z", "a", "b", "c", "d", "e", "f",
      "g", "h", "i", "j", "k", "l", "m", "n", "o", "p", "q", "r", "s", "t", "u", "v",
      "w", "x", "y", "z", "0", "1", "2", "3", "4", "5", "6", "7", "8", "9", "+", "/">>

B64(n) == Base64Chars[n + 1]

RECURSIVE Base64(_)
\* base64.StdEncoding.EncodeToString(val)
Base64(b) ==
    IF b = <<>> THEN <<>>
    ELSE IF Len(b) = 1 THEN
        <<B64(b[1] \div 4), B64((b[1] % 4) * 16), "=", "=">>
    ELSE IF Len(b) = 2 THEN
        <<B64(b[1] \div 4), B64((b[1] % 4) * 16 + b[2] \div 16),
          B64((b[2] % 16) * 4), "=">>
    ELSE
        <<B64(b[1] \div 4), B64((b[1] % 4) * 16 + b[2] \div 16),
          B64((b[2] % 16) * 4 + b[3] \div 64), B64(b[3] % 64)>>
        \o Base64(SubSeq(b, 4, Len(b)))

(***************************************************************************)
(* Values.  A Go value (the `any` of snap.Data()) is a record tagged by    *)
(* its dynamic type t; a wire value differs only in its maps, which are    *)
(* sequences kv of key/value pairs in the order received.                  *)
(***************************************************************************)
Nil == [t |-> "nil"]
Bool(b) == [t |-> "bool", b |-> b]
Int64(i) == [t |-> "int64", i |-> i]
Fin(m, e) == [cls |-> "fin", m |-> m, e |-> e]
NaN == [cls |-> "NaN", m |-> 0, e |-> 0]
PosInf == [cls |-> "+Inf", m |-> 0, e |-> 0]
Float64(f) == [t |-> "float64", f |-> f]
String(s) == [t |-> "string", s |-> s]
Time(sec, nsec) == [t |-> "time", sec |-> sec, nsec |-> nsec]
LatLng(lat, lng) == [t |-> "latlng", lat |-> lat, lng |-> lng]
Bytes(b) == [t |-> "bytes", by |-> b]
DocRef(path) == [t |-> "ref", path |-> path]
Array(a) == [t |-> "array", a |-> a]
WireMap(kv) == [t |-> "map", kv |-> kv]
GoMap(m) == [t |-> "map", m |-> m]
\* a value of a Go type the type switches do not list, here an int32
Other(x) == [t |-> "other", x |-> x]
\* the map[string]float64 that stands for a geo point in the JSON form
Geo(lat, lng) == [t |-> "geo", lat |-> lat, lng |-> lng]

KV(k, v) == [k |-> k, v |-> v]

RECURSIVE Data(_)
\* snap.Data(): the wire value as a Go value; a map loses its order
Data(w) ==
    IF w.t = "map" THEN
        GoMap([k \in {w.kv[i].k : i \in DOMAIN w.kv} |->
                 Data(w.kv[CHOOSE i \in DOMAIN w.kv : w.kv[i].k = k].v)])
    ELSE IF w.t = "array" THEN Array([i \in DOMAIN w.a |-> Data(w.a[i])])
    ELSE w

\* fmt.Sprintf("%v", v) of a value of an unlisted type
SprintfV(v) == FormatInt(v.x)

RECURSIVE convertForJSON(_)
convertForJSON(v) ==
    CASE v.t = "nil" -> Nil
      [] v.t \in {"bool", "int64", "float64", "string"} -> v
      [] v.t = "time" -> String(FormatTime(v.sec, v.nsec))
      [] v.t = "latlng" -> Geo(v.lat, v.lng)
      [] v.t = "bytes" -> String(Base64(v.by))
      [] v.t = "ref" -> String(v.path)
      [] v.t = "array" -> Array([i \in DOMAIN v.a |-> convertForJSON(v.a[i])])
      [] v.t = "map" -> GoMap([k \in DOMAIN v.m |-> convertForJSON(v.m[k])])
      [] OTHER -> String(SprintfV(v))

(***************************************************************************)
(* json.Marshal of the plain form.  The result is [ok, s]: the text, or    *)
(* ok = FALSE for a value JSON cannot hold (a NaN or an infinity).         *)
(***************************************************************************)
EscapeChar(c) ==
    IF c = "\"" THEN <<"\\", "\"">>
    ELSE IF c = "\\" THEN <<"\\", "\\">>
    ELSE IF c = "<" THEN <<"\\", "u", "0", "0", "3", "c">>
    ELSE <<c>>

\* a JSON string literal: quoted, with the escapes of encoding/json
QuoteJSON(s) ==
    <<"\"">> \o Flatten([i \in DOMAIN s |-> EscapeChar(s[i])]) \o <<"\"">>

\* a float64 in JSON; NaN and the infinities are not representable
MarshalFloat(f) ==
    IF f.cls = "fin" THEN [ok |-> TRUE, s |-> FormatFloat(f)]
    ELSE [ok |-> FALSE, s |-> <<>>]

\* a mutant of MapKeyOrder: the keys are written in the order the range over
\* the map yields them
MapKeyOrderUnsorted(m, iter) == IterOrder(DOMAIN m, iter)

\* the order in which json.Marshal writes the keys of a map: it collects the
\* keys by ranging over the map, then sorts them
MapKeyOrder(m, iter) == SortStrings(IterOrder(DOMAIN m, iter))

RECURSIVE Marshal(_, _)
Marshal(p, iter) ==
    CASE p.t = "nil" -> [ok |-> TRUE, s |-> <<"n", "u", "l", "l">>]
      [] p.t = "bool" ->
            [ok |-> TRUE,
             s |-> IF p.b THEN <<"t", "r", "u", "e">> ELSE <<"f", "a", "l", "s", "e">>]
      [] p.t = "int64" -> [ok |-> TRUE, s |-> FormatInt(p.i)]
      [] p.t = "float64" -> MarshalFloat(p.f)
      [] p.t = "string" -> [ok |-> TRUE, s |-> QuoteJSON(p.s)]
      [] p.t = "geo" ->
            LET la == MarshalFloat(p.lat)
                ln == MarshalFloat(p.lng)
            IN [ok |-> la.ok /\ ln.ok,
                s |-> IF la.ok /\ ln.ok
                      THEN <<"{", "\"", "l", "a", "t", "\"", ":">> \o la.s
                           \o <<",", "\"", "l", "n", "g", "\"", ":">> \o ln.s \o <<"}">>
                      ELSE <<>>]
      [] p.t = "array" ->
            LET es == [i \in DOMAIN p.a |-> Marshal(p.a[i], iter)]
                ok == \A i \in DOMAIN es : es[i].ok
            IN [ok |-> ok,
                s |-> IF ok
                      THEN <<"[">> \o JoinComma([i \in DOMAIN es |-> es[i].s]) \o <<"]">>
                      ELSE <<>>]
      [] p.t = "map" ->
            LET ks == MapKeyOrder(p.m, iter)
                es == [i \in DOMAIN ks |-> Marshal(p.m[ks[i]], iter)]
                ok == \A i \in DOMAIN es : es[i].ok
            IN [ok |-> ok,
                s |-> IF ok
                      THEN <<"{">>
                           \o JoinComma([i \in DOMAIN ks |->
                                           QuoteJSON(ks[i]) \o <<":">> \o es[i].s])
                           \o <<"}">>
                      ELSE <<>>]

\* string(b) after b, _ := json.Marshal(x): the error is dropped and b is nil
MarshalString(p, iter) == LET r == Marshal(p, iter) IN IF r.ok THEN r.s ELSE <<>>

\* formatValue(v), under the order `iter` in which maps are ranged over
formatValue(v, iter) ==
    CASE v.t = "nil" -> <<>>
      [] v.t = "bool" ->
            IF v.b THEN <<"t", "r", "u", "e">> ELSE <<"f", "a", "l", "s", "e">>
      [] v.t = "int64" -> FormatInt(v.i)
      [] v.t = "float64" -> FormatFloat(v.f)
      [] v.t = "string" -> v.s
      [] v.t = "time" -> FormatTime(v.sec, v.nsec)
      [] v.t = "latlng" -> MarshalString(Geo(v.lat, v.lng), iter)
      [] v.t = "bytes" -> Base64(v.by)
      [] v.t = "ref" -> v.path
      [] v.t = "array" -> MarshalString(convertForJSON(v), iter)
      [] v.t = "map" -> MarshalString(convertForJSON(v), iter)
      [] OTHER -> SprintfV(v)

(***************************************************************************)
(* The inputs: the --collections flag, the documents of the store.         *)
(***************************************************************************)
\* the keys of documents and of nested maps
KeyUniverse == {<<"a">>, <<"a", "b">>, <<"B">>}

\* the orders in which the runtime may range over the keys of a map
IterOrders ==
    {s \in [1..Cardinality(KeyUniverse) -> KeyUniverse] : Range(s) = KeyUniverse}

\* the top-level collections of the store
StoreCollections == {<<"u">>, <<"o">>}

\* values of the --collections flag; <<>> asks for discovery
FlagValues ==
    {<<>>, <<"u">>, <<" ", "o", " ", ",", "u">>, <<"u", ",", "u">>}

RECURSIVE Split(_, _)
\* strings.Split(s, sep) for a one-character sep
Split(s, sep) ==
    IF \A j \in DOMAIN s : s[j] # sep THEN <<s>>
    ELSE LET j == CHOOSE k \in DOMAIN s :
                      s[k] = sep /\ \A l \in 1..(k - 1) : s[l] # sep
         IN <<SubSeq(s, 1, j - 1)>> \o Split(SubSeq(s, j + 1, Len(s)), sep)

RECURSIVE TrimSpace(_)
\* strings.TrimSpace(s)
TrimSpace(s) ==
    IF s # <<>> /\ Head(s) = " " THEN TrimSpace(Tail(s))
    ELSE IF s # <<>> /\ s[Len(s)] = " " THEN TrimSpace(SubSeq(s, 1, Len(s) - 1))
    ELSE s

\* the documents a stream may yield: identifier and fields as received
StoreDocs ==
    { [id |-> <<"d", "1">>,
       fields |-> WireMap(<<KV(<<"a">>, String(<<"A", "l">>))>>)],
      [id |-> <<"d", "2">>,
       fields |-> WireMap(<<KV(<<"a", "b">>, Int64(30)),
                            KV(<<"a">>, String(<<"B", "o">>))>>)],
      [id |-> <<"d", "3">>,
       fields |-> WireMap(<<KV(<<"a", "b">>,
                               WireMap(<<KV(<<"a", "b">>, Int64(1)),
                                         KV(<<"B">>, Array(<<Nil, Int64(2)>>))>>)),
                            KV(<<"B">>, Nil)>>)] }

NoErr == "nil"
\* the error of run: its message and the error it wraps
RunError(msg, cause) == [msg |-> msg, cause |-> cause]
NoRunErr == RunError(NoErr, NoErr)
\* a path of the output directory: no file, or a file and the rows in it
NoFile == [exists |-> FALSE, rows |-> <<>>]
File(rows) == [exists |-> TRUE, rows |-> rows]
NoResult == "none"

\* filepath.Join(outputDir, name+".csv"), within the output directory
FilePath(n) == n \o <<".", "c", "s", "v">>

DocIdCol ==
    <<"_", "_", "d", "o", "c", "u", "m", "e", "n", "t", "_", "i", "d", "_", "_">>

exportResult(c, d, f, p, e) ==
    [collection |-> c, docCount |-> d, fieldCount |-> f, filePath |-> p, err |-> e]

\* the exportResult of a call that has not returned: the zero value
NoReturn == exportResult(<<>>, 0, 0, <<>>, NoErr)

(***************************************************************************)
(* State.                                                                  *)
(***************************************************************************)
VARIABLES
    flagValue,  \* the --collections flag
    pc,         \* where run is: "mkdir", "client", "resolve", "loop", "export", "done"
    names,      \* resolveCollections: the names listed by the store
    listErr,    \* resolveCollections: the listing failed
    collNames,  \* run: the resolved collections
    results,    \* run: the outcomes so far
    failed,     \* run: the names of the failed collections
    exit,       \* the exit status of the process: "running", then "0" or "1"
    runErr,     \* the error run returns
    calls,      \* history: the names exportCollection was called with
    fs,         \* the output directory: collection name -> rows of its file
    fsAtCall,   \* history: fs when exportCollection was entered
    epc,        \* where exportCollection is
    name,       \* exportCollection: its collection
    iterState,  \* the document iterator: "open", "done" or "err"
    fieldSet, docs, count, fields, headers,
    created,    \* os.Create has returned the file f
    createErr,  \* os.Create has failed
    wbuf,       \* csv.Writer: the rows buffered, not yet in the file
    werr,       \* csv.Writer: the sticky error of its bufio.Writer
    i,          \* the rows loop: documents rendered so far
    r,          \* the exportResult returned
    fvIn, fvIter1, fvIter2, fvOut1, fvOut2, fvPc,  \* calls of formatValue
    sp          \* the spinners made so far, one for each call of exportCollection

runVars == <<flagValue, pc, names, listErr, collNames, results, failed, exit,
             runErr, calls>>
expVars == <<epc, name, iterState, fieldSet, docs, count, fields, headers,
             created, createErr, wbuf, werr, i, r, fsAtCall>>
fvVars == <<fvIn, fvIter1, fvIter2, fvOut1, fvOut2, fvPc>>
vars == <<runVars, fs, expVars, fvVars, sp>>

\* exportCollection is not running
ExportIdle ==
    /\ epc = "idle" /\ name = <<>> /\ iterState = "open"
    /\ fieldSet = {} /\ docs = <<>> /\ count = 0 /\ fields = <<>> /\ headers = <<>>
    /\ created = FALSE /\ createErr = FALSE /\ wbuf = <<>> /\ werr = FALSE
    /\ i = 0 /\ r = NoReturn

RunInit ==
    /\ flagValue \in FlagValues
    /\ pc = "mkdir" /\ names = <<>> /\ listErr = FALSE /\ collNames = <<>>
    /\ results = <<>> /\ failed = <<>> /\ exit = "running" /\ runErr = NoRunErr
    /\ calls = <<>>
    /\ fs = [n \in StoreCollections |-> NoFile]
    /\ fsAtCall = fs
    /\ ExportIdle
    /\ sp = <<>>

FormatOff ==
    /\ fvIn = Nil /\ fvIter1 = <<>> /\ fvIter2 = <<>>
    /\ fvOut1 = NoResult /\ fvOut2 = NoResult /\ fvPc = "off"

Init == RunInit /\ FormatOff

(***************************************************************************)
(* run and main.                                                           *)
(***************************************************************************)
\* run returns err; main prints it and exits with status 1
RunFails(e) ==
    /\ pc' = "done" /\ runErr' = e /\ exit' = "1"

\* os.MkdirAll(output, 0755)
MkdirAll ==
    /\ pc = "mkdir"
    /\ \/ /\ pc' = "client"
          /\ UNCHANGED <<runErr, exit>>
       \/ RunFails(RunError("failed to create output directory", "mkdir"))
    /\ UNCHANGED <<flagValue, names, listErr, collNames, results, failed, calls,
                   fs, expVars, fvVars, sp>>

\* firestore.NewClientWithDatabase(ctx, project, database)
NewClient ==
    /\ pc = "client"
    /\ \/ /\ pc' = "resolve"
          /\ UNCHANGED <<runErr, exit>>
       \/ RunFails(RunError("failed to create Firestore client", "client"))
    /\ UNCHANGED <<flagValue, names, listErr, collNames, results, failed, calls,
                   fs, expVars, fvVars, sp>>

\* a mutant of resolveCollections: an empty listing is returned as it is
resolveCollectionsNoEmptyCheck(flag, listed, lerr) ==
    IF flag # <<>> THEN
        LET parts == Split(flag, ",")
        IN [names |-> [j \in DOMAIN parts |-> TrimSpace(parts[j])], err |-> NoErr]
    ELSE IF lerr THEN [names |-> <<>>, err |-> "listing collections"]
    ELSE [names |-> listed, err |-> NoErr]

\* resolveCollections(ctx, client, flagValue), where the store lists `listed`
\* before the iterator is done or, with lerr, fails
resolveCollections(flag, listed, lerr) ==
    IF flag # <<>> THEN
        LET parts == Split(flag, ",")
        IN [names |-> [j \in DOMAIN parts |-> TrimSpace(parts[j])], err |-> NoErr]
    ELSE IF lerr THEN [names |-> <<>>, err |-> "listing collections"]
    ELSE IF Len(listed) = 0
         THEN [names |-> <<>>, err |-> "no collections found in database"]
    ELSE [names |-> listed, err |-> NoErr]

\* the listings the store may give: some of its collections, each once
Listings ==
    {l \in UNION {[1..n -> StoreCollections] : n \in 0..Cardinality(StoreCollections)} :
        \A j, k \in DOMAIN l : j # k => l[j] # l[k]}

\* collNames, err := resolveCollections(...) and the check of err
Resolve ==
    /\ pc = "resolve"
    /\ \E listed \in Listings, lerr \in BOOLEAN :
          /\ flagValue # <<>> => (listed = <<>> /\ ~lerr)
          /\ names' = listed
          /\ listErr' = lerr
          /\ LET res == resolveCollections(flagValue, listed, lerr)
             IN IF res.err # NoErr
                THEN /\ RunFails(RunError("failed to resolve collections", res.err))
                     /\ UNCHANGED collNames
                ELSE /\ collNames' = res.names
                     /\ pc' = "loop"
                     /\ UNCHANGED <<runErr, exit>>
    /\ UNCHANGED <<flagValue, results, failed, calls, fs, expVars, fvVars, sp>>

\* a mutant of LoopDone: the loop stops at the first failed collection
LoopDoneAtFailure(res, colls) ==
    \/ Len(res) = Len(colls)
    \/ (Len(res) > 0 /\ res[Len(res)].err # NoErr)

\* for _, name := range collNames has visited every name
LoopDone(res, colls) == Len(res) = Len(colls)

RECURSIVE FailedOf(_)
\* the loop collecting the names of the results with an error
FailedOf(res) ==
    IF res = <<>> THEN <<>>
    ELSE (IF Head(res).err # NoErr THEN <<Head(res).collection>> ELSE <<>>)
         \o FailedOf(Tail(res))

\* a mutant of RunStatus: run returns nil whatever failed
RunStatusAlwaysNil(f) == [err |-> NoRunErr, exit |-> "0"]

\* what run returns for the failed list f, and the exit status main gives it
RunStatus(f) ==
    IF Len(f) > 0 THEN [err |-> RunError("export failed", NoErr), exit |-> "1"]
    ELSE [err |-> NoRunErr, exit |-> "0"]

(***************************************************************************)
(* The progress spinner.  A spinner is a record: its suffix, its done      *)
(* channel (closed or not), the holder of its mutex ("free", "main" or     *)
(* "spin"), the position of its goroutine, and the suffix the goroutine    *)
(* last copied.  starts, stops and panicked are history: the calls of      *)
(* Start and Stop, and a close of a channel that was closed already.       *)
(***************************************************************************)
\* fmt.Sprintf("Reading %q... %s documents", name, fmtInt(count))
SuffixText(n, c) == <<n, c>>

\* the goroutine's local suffix, before its first copy
NoSuffix == <<>>

\* newSpinner(suffix)
newSpinner(suffix) ==
    [suffix |-> suffix, done |-> FALSE, mu |-> "free", gpc |-> "none",
     seen |-> NoSuffix, starts |-> 0, stops |-> 0, panicked |-> FALSE]

\* s.Start(): the goroutine is spawned, at its select
SpinnerStart(s) == [s EXCEPT !.gpc = "select", !.starts = @ + 1]

\* s.Stop(): close(s.done); closing a closed channel panics
SpinnerStop(s) ==
    IF s.done
    THEN [s EXCEPT !.panicked = TRUE, !.stops = @ + 1]
    ELSE [s EXCEPT !.done = TRUE, !.stops = @ + 1]

\* a mutant of StopAfterRead: the empty branch stops the spinner again
StopAfterReadAndOnEmpty(s, empty) ==
    IF empty THEN SpinnerStop(SpinnerStop(s)) ELSE SpinnerStop(s)

\* sp.Stop() after the read loop, before the check for an empty collection
StopAfterRead(s, empty) == SpinnerStop(s)

\* s.mu.Lock() can return
MutexFree(s) == s.mu = "free"

\* s.mu.Lock() by who
MutexLock(s, who) == [s EXCEPT !.mu = who]

\* s.mu.Unlock()
MutexUnlock(s) == [s EXCEPT !.mu = "free"]

\* the spinner of the running exportCollection
Cur == Len(sp)

\* r := exportCollection(ctx, client, name, limit, output): the call, and
\* sp := newSpinner(...); sp.Start()
CallExport ==
    /\ pc = "loop"
    /\ ~LoopDone(results, collNames)
    /\ pc' = "export"
    /\ name' = collNames[Len(results) + 1]
    /\ calls' = Append(calls, collNames[Len(results) + 1])
    /\ epc' = "read"
    /\ fsAtCall' = fs
    /\ sp' = Append(sp, SpinnerStart(newSpinner(
                            SuffixText(collNames[Len(results) + 1], 0))))
    /\ UNCHANGED <<flagValue, names, listErr, collNames, results, failed, exit,
                   runErr, fs, iterState, fieldSet, docs, count, fields, headers,
                   created, createErr, wbuf, werr, i, r, fvVars>>

\* results = append(results, r), once exportCollection has returned
AppendResult ==
    /\ pc = "export"
    /\ epc = "ret"
    /\ results' = Append(results, r)
    /\ pc' = "loop"
    /\ epc' = "idle" /\ name' = <<>> /\ iterState' = "open"
    /\ fieldSet' = {} /\ docs' = <<>> /\ count' = 0 /\ fields' = <<>>
    /\ headers' = <<>> /\ created' = FALSE /\ createErr' = FALSE /\ wbuf' = <<>>
    /\ werr' = FALSE /\ i' = 0 /\ r' = NoReturn
    /\ UNCHANGED <<flagValue, names, listErr, collNames, failed, exit, runErr,
                   calls, fs, fsAtCall, fvVars, sp>>

\* printSummaryTable(results), the failed list, and the status of the run
Summary ==
    /\ pc = "loop"
    /\ LoopDone(results, collNames)
    /\ failed' = FailedOf(results)
    /\ runErr' = RunStatus(failed').err
    /\ exit' = RunStatus(failed').exit
    /\ pc' = "done"
    /\ UNCHANGED <<flagValue, names, listErr, collNames, results, calls, fs,
                   expVars, fvVars, sp>>

(***************************************************************************)
(* exportCollection.  The query's Limit is applied by the store: the       *)
(* stream is what the store yields, MaxDocs documents at most.             *)
(***************************************************************************)
\* the deferred w.Flush() and f.Close(), run as exportCollection returns with
\* the file created: what the buffer holds goes to the file, or part of it
\* when the write fails; the error stays in the writer and is not looked at
Deferred ==
    IF werr \/ wbuf = <<>> THEN UNCHANGED <<fs, wbuf, werr>>
    ELSE \/ /\ fs' = [fs EXCEPT ![name] = File(@.rows \o wbuf)]
            /\ wbuf' = <<>>
            /\ UNCHANGED werr
         \/ \E n \in 0..(Len(wbuf) - 1) :
               /\ fs' = [fs EXCEPT ![name] = File(@.rows \o SubSeq(wbuf, 1, n))]
               /\ wbuf' = SubSeq(wbuf, n + 1, Len(wbuf))
               /\ werr' = TRUE

\* w.Write(record) succeeds: the record goes to the buffer, which spills to
\* the file first when it is full, and may when the record is large.  The
\* buffer is counted in rows: a row is in the buffer or in the file, whole
WriteOk(record) ==
    \/ /\ Len(wbuf) < BufRows
       /\ wbuf' = Append(wbuf, record)
       /\ UNCHANGED fs
    \/ /\ wbuf # <<>>
       /\ fs' = [fs EXCEPT ![name] = File(@.rows \o wbuf)]
       /\ wbuf' = <<record>>

\* w.Write(record) fails: the buffer had to spill and the file took only the
\* first n buffered rows; the error sticks to the writer, so the deferred
\* w.Flush() of this return writes nothing more
WriteFails ==
    \E n \in 0..Len(wbuf) :
        /\ fs' = [fs EXCEPT ![name] = File(@.rows \o SubSeq(wbuf, 1, n))]
        /\ wbuf' = SubSeq(wbuf, n + 1, Len(wbuf))
        /\ werr' = TRUE

\* snap, err := iter.Next() yields a document
ReadDoc ==
    /\ epc = "read"
    /\ Len(docs) < MaxDocs
    /\ \E d \in StoreDocs :
          /\ \A k \in DOMAIN docs : docs[k].id # d.id
          /\ LET data == Data(d.fields).m
             IN /\ fieldSet' = fieldSet \cup DOMAIN data
                /\ docs' = Append(docs, [id |-> d.id, data |-> data])
    /\ count' = count + 1
    /\ epc' = "lock"
    /\ UNCHANGED <<runVars, fs, name, iterState, fields, headers, created,
                   createErr, wbuf, werr, i, r, fsAtCall, fvVars, sp>>

\* sp.SetSuffix(...): s.mu.Lock()
SetSuffixLock ==
    /\ epc = "lock"
    /\ MutexFree(sp[Cur])
    /\ sp' = [sp EXCEPT ![Cur] = MutexLock(@, "main")]
    /\ epc' = "store"
    /\ UNCHANGED <<runVars, fs, name, iterState, fieldSet, docs, count, fields,
                   headers, created, createErr, wbuf, werr, i, r, fsAtCall,
                   fvVars>>

\* sp.SetSuffix(...): s.suffix = suffix
SetSuffixStore ==
    /\ epc = "store"
    /\ sp' = [sp EXCEPT ![Cur].suffix = SuffixText(name, count)]
    /\ epc' = "unlock"
    /\ UNCHANGED <<runVars, fs, name, iterState, fieldSet, docs, count, fields,
                   headers, created, createErr, wbuf, werr, i, r, fsAtCall,
                   fvVars>>

\* sp.SetSuffix(...): s.mu.Unlock()
SetSuffixUnlock ==
    /\ epc = "unlock"
    /\ sp' = [sp EXCEPT ![Cur] = MutexUnlock(@)]
    /\ epc' = "read"
    /\ UNCHANGED <<runVars, fs, name, iterState, fieldSet, docs, count, fields,
                   headers, created, createErr, wbuf, werr, i, r, fsAtCall,
                   fvVars>>

\* iter.Next() fails: sp.Stop(), and the error is returned
ReadErr ==
    /\ epc = "read"
    /\ iterState' = "err"
    /\ sp' = [sp EXCEPT ![Cur] = SpinnerStop(@)]
    /\ r' = exportResult(name, 0, 0, <<>>, "read")
    /\ epc' = "ret"
    /\ UNCHANGED <<runVars, fs, name, fieldSet, docs, count, fields, headers,
                   created, createErr, wbuf, werr, i, fsAtCall, fvVars>>

\* headers := append([]string{"__document_id__"}, fields...)
HeaderRow(flds) == <<DocIdCol>> \o flds

\* a mutant of CollectionEmpty: the check for an empty collection is missing
CollectionEmptyNever(d) == FALSE

\* len(docs) == 0
CollectionEmpty(d) == Len(d) = 0

\* iter.Next() returns iterator.Done: the spinner is stopped, an empty
\* collection is skipped, otherwise the sorted header is built
ReadDone ==
    /\ epc = "read"
    /\ iterState' = "done"
    /\ sp' = [sp EXCEPT ![Cur] = StopAfterRead(@, CollectionEmpty(docs))]
    /\ IF CollectionEmpty(docs)
       THEN /\ r' = exportResult(name, 0, 0, <<>>, NoErr)
            /\ epc' = "ret"
            /\ UNCHANGED <<fields, headers>>
       ELSE /\ \E iter \in IterOrders :
                  fields' = SortStrings(IterOrder(fieldSet, iter))
            /\ headers' = HeaderRow(fields')
            /\ epc' = "create"
            /\ UNCHANGED r
    /\ UNCHANGED <<runVars, fs, name, fieldSet, docs, count, created, createErr,
                   wbuf, werr, i, fsAtCall, fvVars>>

\* f, err := os.Create(filePath): the file is created or truncated
CreateFile ==
    /\ epc = "create"
    /\ \/ /\ fs' = [fs EXCEPT ![name] = File(<<>>)]
          /\ created' = TRUE
          /\ epc' = "header"
          /\ UNCHANGED <<r, createErr>>
       \/ /\ createErr' = TRUE
          /\ r' = exportResult(name, 0, 0, <<>>, "creating file")
          /\ epc' = "ret"
          /\ UNCHANGED <<fs, created>>
    /\ UNCHANGED <<runVars, name, iterState, fieldSet, docs, count, fields,
                   headers, wbuf, werr, i, fsAtCall, fvVars, sp>>

\* w.Write(headers)
WriteHeader ==
    /\ epc = "header"
    /\ \/ /\ WriteOk(headers)
          /\ epc' = "rows"
          /\ UNCHANGED <<r, werr>>
       \/ /\ WriteFails
          /\ r' = exportResult(name, 0, 0, <<>>, "writing header")
          /\ epc' = "ret"
    /\ UNCHANGED <<runVars, name, iterState, fieldSet, docs, count, fields,
                   headers, created, createErr, i, fsAtCall, fvVars, sp>>

\* a mutant of Row: the cells are those of the document's own fields
RowOfOwnFields(doc, flds, hdrs, iter) ==
    LET own == SortStrings(IterOrder(DOMAIN doc.data, iter))
    IN <<doc.id>> \o [j \in DOMAIN own |-> formatValue(doc.data[own[j]], iter)]

\* the row of one document: its identifier, then a cell for every field
Row(doc, flds, hdrs, iter) ==
    [j \in 1..Len(hdrs) |->
        IF j = 1 THEN doc.id
        ELSE LET h == flds[j - 1]
             IN IF h \notin DOMAIN doc.data \/ doc.data[h] = Nil THEN <<>>
                ELSE formatValue(doc.data[h], iter)]

\* one turn of the rows loop: the document's row is written
WriteRow ==
    /\ epc = "rows"
    /\ i < Len(docs)
    /\ \/ /\ \E iter \in IterOrders :
                WriteOk(Row(docs[i + 1], fields, headers, iter))
          /\ i' = i + 1
          /\ UNCHANGED <<epc, r, werr>>
       \/ /\ WriteFails
          /\ r' = exportResult(name, 0, 0, <<>>, "writing row")
          /\ epc' = "ret"
          /\ UNCHANGED i
    /\ UNCHANGED <<runVars, name, iterState, fieldSet, docs, count, fields,
                   headers, created, createErr, fsAtCall, fvVars, sp>>

\* every row is written: the result is returned and the deferred calls run
ExportDone ==
    /\ epc = "rows"
    /\ i = Len(docs)
    /\ r' = exportResult(name, Len(docs), Cardinality(fieldSet), FilePath(name), NoErr)
    /\ epc' = "ret"
    /\ Deferred
    /\ UNCHANGED <<runVars, name, iterState, fieldSet, docs, count, fields,
                   headers, created, createErr, i, fsAtCall, fvVars, sp>>

Next ==
    \/ MkdirAll \/ NewClient \/ Resolve \/ CallExport \/ AppendResult \/ Summary
    \/ ReadDoc \/ SetSuffixLock \/ SetSuffixStore \/ SetSuffixUnlock
    \/ ReadErr \/ ReadDone \/ CreateFile \/ WriteHeader \/ WriteRow
    \/ ExportDone

Spec == Init /\ [][Next]_vars

(***************************************************************************)
(* The spinner's goroutine, which lives as long as the process does.  Each *)
(* turn of its loop is: the select on s.done, Lock, the copy of s.suffix,  *)
(* Unlock, then the frame is printed and the goroutine sleeps 80ms.        *)
(***************************************************************************)
\* the spinners a run can make: one for each part of the flag value
SpinnerIds == 1..2

\* select { case <-s.done: return; default: ... }
SpinSelect(k) ==
    /\ sp[k].gpc = "select"
    /\ sp' = [sp EXCEPT ![k].gpc = IF sp[k].done THEN "exited" ELSE "lock"]

\* s.mu.Lock()
SpinLock(k) ==
    /\ sp[k].gpc = "lock"
    /\ MutexFree(sp[k])
    /\ sp' = [sp EXCEPT ![k] = [MutexLock(@, "spin") EXCEPT !.gpc = "read"]]

\* suffix := s.suffix
SpinRead(k) ==
    /\ sp[k].gpc = "read"
    /\ sp' = [sp EXCEPT ![k].seen = sp[k].suffix, ![k].gpc = "unlock"]

\* s.mu.Unlock()
SpinUnlock(k) ==
    /\ sp[k].gpc = "unlock"
    /\ sp' = [sp EXCEPT ![k] = [MutexUnlock(@) EXCEPT !.gpc = "print"]]

\* fmt.Fprintf(os.Stderr, ...); i++; time.Sleep(80 * time.Millisecond)
SpinPrint(k) ==
    /\ sp[k].gpc = "print"
    /\ sp' = [sp EXCEPT ![k].gpc = "select"]

\* one step of the goroutine of spinner k
SpinStep(k) ==
    /\ k \in DOMAIN sp
    /\ exit = "running"
    /\ SpinSelect(k) \/ SpinLock(k) \/ SpinRead(k) \/ SpinUnlock(k) \/ SpinPrint(k)
    /\ UNCHANGED <<runVars, fs, expVars, fvVars>>

\* a run on one collection, so that the goroutine's interleavings are few
SpinnerInit == Init /\ flagValue = <<"u">>

SpinnerNext == Next \/ \E k \in SpinnerIds : SpinStep(k)

\* the Go scheduler runs every runnable goroutine: a step of the spinner's
\* goroutine that stays possible is taken (every such step changes sp)
SpecSpinner ==
    SpinnerInit /\ [][SpinnerNext]_vars /\ \A k \in SpinnerIds : WF_sp(SpinStep(k))

(***************************************************************************)
(* formatValue on its own: one value, formatted twice, each time under     *)
(* whatever order the runtime ranges over maps in.                         *)
(***************************************************************************)
Scalars ==
    { Nil, Bool(TRUE), Bool(FALSE), Int64(0), Int64(-12), Int64(30),
      Float64(Fin(15, 1)), Float64(Fin(-5, 2)), Float64(NaN), Float64(PosInf),
      String(<<>>), String(<<"a", "\"", "<", "\\">>),
      Time(0, 0), Time(5, 120000000),
      LatLng(Fin(1234, 2), Fin(-5678, 2)), LatLng(NaN, Fin(0, 0)),
      Bytes(<<1, 2, 3>>), Bytes(<<255>>), DocRef(<<"u", "/", "d", "1">>),
      Other(7) }

ElemValues == {Nil, Int64(-12), Float64(NaN), Time(5, 120000000)}

InnerValues ==
    { Int64(1),
      WireMap(<<KV(<<"a", "b">>, Int64(1)), KV(<<"B">>, Nil)>>),
      Array(<<Int64(3), WireMap(<<KV(<<"a">>, Bytes(<<1, 2, 3>>)),
                                  KV(<<"B">>, Int64(4))>>)>>) }

\* the key sequences of wire maps: distinct keys, in any order
KeySeqs ==
    {ks \in UNION {[1..n -> KeyUniverse] : n \in 0..MaxElems} :
        \A j, k \in DOMAIN ks : j # k => ks[j] # ks[k]}

WireMapsOver(V) ==
    {WireMap([j \in DOMAIN ks |-> KV(ks[j], vs[j])]) :
        <<ks, vs>> \in {p \in KeySeqs \X UNION {[1..n -> V] : n \in 0..MaxElems} :
                          Len(p[1]) = Len(p[2])}}

ArraysOver(V) == {Array(a) : a \in UNION {[1..n -> V] : n \in 0..MaxElems}}

FormatInputs ==
    Scalars \cup ArraysOver(ElemValues) \cup WireMapsOver(ElemValues)
    \cup WireMapsOver(InnerValues) \cup ArraysOver(InnerValues)

FormatInit ==
    /\ flagValue = <<>> /\ pc = "off" /\ names = <<>> /\ listErr = FALSE
    /\ collNames = <<>> /\ results = <<>> /\ failed = <<>> /\ exit = "running"
    /\ runErr = NoRunErr /\ calls = <<>>
    /\ fs = [n \in StoreCollections |-> NoFile]
    /\ fsAtCall = fs
    /\ ExportIdle
    /\ sp = <<>>
    /\ fvIn \in FormatInputs
    /\ fvIter1 = <<>> /\ fvIter2 = <<>>
    /\ fvOut1 = NoResult /\ fvOut2 = NoResult /\ fvPc = "in"

\* formatValue(val), a first time
FormatFirst ==
    /\ fvPc = "in"
    /\ \E iter \in IterOrders :
          /\ fvIter1' = iter
          /\ fvOut1' = formatValue(Data(fvIn), iter)
    /\ fvPc' = "one"
    /\ UNCHANGED <<runVars, fs, expVars, fvIn, fvIter2, fvOut2, sp>>

\* formatValue(val) again, on the same value
FormatSecond ==
    /\ fvPc = "one"
    /\ \E iter \in IterOrders :
          /\ fvIter2' = iter
          /\ fvOut2' = formatValue(Data(fvIn), iter)
    /\ fvPc' = "two"
    /\ UNCHANGED <<runVars, fs, expVars, fvIn, fvIter1, fvOut1, sp>>

FormatNext == FormatFirst \/ FormatSecond

SpecFormat == FormatInit /\ [][FormatNext]_vars

(***************************************************************************)
(* Properties.                                                             *)
(***************************************************************************)
\* the elements of the set S of strings as the strictly ascending sequence
Ascending(S) ==
    CHOOSE q \in [1..Cardinality(S) -> S] :
        \A j, k \in DOMAIN q : j < k => StrLess(q[j], q[k])

\* the field names of the documents read
FieldsSeen == UNION {DOMAIN docs[k].data : k \in DOMAIN docs}

\* the rows handed to the csv.Writer so far: those in the file, then those
\* still in its buffer
Written == fs[name].rows \o wbuf

\* the text of the cell of document doc under column c
ExpectedCell(doc, c) ==
    IF c \notin DOMAIN doc.data \/ doc.data[c] = Nil THEN <<>>
    ELSE formatValue(doc.data[c], CHOOSE iter \in IterOrders : TRUE)

\* C1: once a non-empty collection is read, the header is "__document_id__"
\* followed by the distinct field names of the documents read, each once,
\* in ascending byte order, whatever the order the documents arrived in and
\* the field set was ranged over in; it is the first row written.
C1_HeaderSortedUnion ==
    /\ (iterState = "done" /\ Len(docs) > 0) =>
          headers = <<DocIdCol>> \o Ascending(FieldsSeen)
    /\ (created /\ Written # <<>>) =>
          Written[1] = <<DocIdCol>> \o Ascending(FieldsSeen)

C1_Witness ==
    /\ epc = "rows" /\ Len(docs) = 2
    /\ Cardinality(FieldsSeen) = 3
    /\ \E f \in FieldsSeen : \A k \in DOMAIN docs : f \in DOMAIN docs[k].data
    /\ fs[name].rows # <<>>
    /\ fs[name].rows[1] = <<DocIdCol, <<"B">>, <<"a">>, <<"a", "b">>>>

\* C2: when exportCollection returns without an error for N >= 1 documents,
\* the file holds the header and then exactly N rows in read order; every
\* row is as long as the header, starts with the document's identifier and
\* has under column c the text of the document's value for c, or the empty
\* string when the field is missing or null.
C2_FileHoldsEveryRow ==
    (epc = "ret" /\ r.err = NoErr /\ Len(docs) >= 1) =>
        LET rows == fs[name].rows
        IN /\ fs[name].exists
           /\ Len(rows) = Len(docs) + 1
           /\ rows[1] = headers
           /\ \A k \in DOMAIN docs :
                 /\ Len(rows[k + 1]) = Len(headers)
                 /\ rows[k + 1][1] = docs[k].id
                 /\ \A j \in 2..Len(headers) :
                       rows[k + 1][j] = ExpectedCell(docs[k], headers[j])

SetupFailed == runErr.msg \in {"failed to create output directory",
                               "failed to create Firestore client",
                               "failed to resolve collections"}

\* C3: exportCollection is called for the resolved collections in their
\* order, each once and one at a time; every call gives one outcome, for
\* that collection; the run ends only when every collection has its
\* outcome, whichever failed; the file of an outcome that names one exists.
C3_EveryCollectionAttempted ==
    /\ Len(calls) <= Len(collNames)
    /\ \A k \in DOMAIN calls : calls[k] = collNames[k]
    /\ Len(calls) = Len(results) + (IF pc = "export" THEN 1 ELSE 0)
    /\ \A k \in DOMAIN results : results[k].collection = collNames[k]
    /\ (pc = "done" /\ ~SetupFailed) =>
          (Len(results) = Len(collNames) /\ calls = collNames)
    /\ \A k \in DOMAIN results :
          results[k].filePath # <<>> => fs[results[k].collection].exists

C3_Witness ==
    /\ pc = "done" /\ Len(results) = 2
    /\ results[1].err # NoErr
    /\ results[2].err = NoErr /\ results[2].docCount > 0
    /\ fs[results[2].collection].exists

\* the positions of the failed outcomes
FailedAt == {k \in DOMAIN results : results[k].err # NoErr}

\* C4: once the collections are resolved and the run has ended, the status
\* is failure exactly when some outcome carries an error, and the failed
\* list is the names of the outcomes with an error, in processing order.
C4_StatusIffSomeFailure ==
    (pc = "done" /\ ~SetupFailed) =>
        /\ exit \in {"0", "1"}
        /\ exit = "1" <=> FailedAt # {}
        /\ (runErr = NoRunErr) <=> FailedAt = {}
        /\ Len(failed) = Cardinality(FailedAt)
        /\ \A k \in DOMAIN failed :
              failed[k] = results[CHOOSE p \in FailedAt :
                                     Cardinality({q \in FailedAt : q < p}) = k - 1].collection

C4_Witness ==
    /\ pc = "done" /\ Len(results) = 2
    /\ results[1].err = NoErr /\ results[1].docCount > 0
    /\ results[2].err # NoErr
    /\ exit = "1" /\ failed = <<results[2].collection>>

\* C5: when the stream ends without an error and without a document,
\* exportCollection returns zero counts, no path and no error, and has
\* created no file and written nothing.
C5_EmptyCollectionSkipped ==
    (epc = "ret" /\ iterState = "done" /\ Len(docs) = 0) =>
        /\ r = exportResult(name, 0, 0, <<>>, NoErr)
        /\ ~created /\ wbuf = <<>>
        /\ fs = fsAtCall

C5_Witness ==
    /\ epc = "ret" /\ iterState = "done" /\ Len(docs) = 0
    /\ r.err = NoErr /\ ~fs[name].exists

\* C6: when the read of the stream, the creation of the file or a write to
\* it has failed (a write of buffered rows to the file included), the
\* outcome exportCollection returns carries an error, and the file, if it
\* was created, is still there.
C6_FailureIsReported ==
    (epc = "ret" /\ (iterState = "err" \/ createErr \/ werr)) =>
        /\ r.err # NoErr
        /\ created => fs[name].exists

\* C7: when the output directory or the client cannot be set up, or when
\* no collection list is given and the listing fails or is empty, run fails
\* before exportCollection is called and no file is created; the cause of
\* a failed discovery is the listing error or "no collections found".
C7_ResolutionFailureHalts ==
    /\ SetupFailed =>
          /\ pc = "done" /\ exit = "1"
          /\ calls = <<>> /\ results = <<>>
          /\ \A n \in DOMAIN fs : ~fs[n].exists
    /\ (pc \in {"loop", "export"}) => ~(flagValue = <<>> /\ (listErr \/ names = <<>>))
    /\ (pc = "done" /\ flagValue = <<>> /\ (listErr \/ names = <<>>)) => SetupFailed
    /\ (runErr.msg = "failed to resolve collections") =>
          /\ flagValue = <<>>
          /\ runErr.cause = IF listErr THEN "listing collections"
                            ELSE "no collections found in database"

C7_Witness ==
    /\ pc = "done" /\ flagValue = <<>> /\ names = <<>> /\ ~listErr
    /\ runErr = RunError("failed to resolve collections",
                         "no collections found in database")
    /\ exit = "1" /\ calls = <<>>

IsText(x) == DOMAIN x = 1..Len(x) /\ \A j \in DOMAIN x : x[j] \in STRING

\* C8: formatValue returns a text for every value, whatever its variant,
\* and two calls on the same value return the same text, whatever order
\* the maps in it are ranged over in.
C8_TotalAndDeterministic ==
    /\ fvPc \in {"one", "two"} => IsText(fvOut1)
    /\ fvPc = "two" => (IsText(fvOut2) /\ fvOut1 = fvOut2)

C8_Witness ==
    /\ fvPc = "two" /\ fvIn.t = "map"
    /\ \E j \in DOMAIN fvIn.kv : fvIn.kv[j].v.t = "map"
    /\ Len(fvIn.kv) = 2
    /\ IterOrder({fvIn.kv[1].k, fvIn.kv[2].k}, fvIter1)
          # IterOrder({fvIn.kv[1].k, fvIn.kv[2].k}, fvIter2)
    /\ fvOut1 = fvOut2 /\ fvOut1 # <<>>

\* the characters of map keys; no other part of the text of a key probe
\* holds them
KeyChars == {"a", "b", "B"}

RECURSIVE IsKeyProbe(_)
\* a value whose JSON text shows the keys of its maps and nothing like them
IsKeyProbe(w) ==
    CASE w.t = "map" -> \A j \in DOMAIN w.kv : IsKeyProbe(w.kv[j].v)
      [] w.t = "array" -> \A j \in DOMAIN w.a : IsKeyProbe(w.a[j])
      [] OTHER -> w.t \in {"nil", "int64", "time"}

\* the key characters of a text, in the order they appear
KeysInText(x) == LET IsKey(c) == c \in KeyChars IN SelectSeq(x, IsKey)

RECURSIVE WireKeyTrace(_)
\* the keys of w and of the maps in it, each map's in the order received
WireKeyTrace(w) ==
    CASE w.t = "map" ->
            Flatten([j \in DOMAIN w.kv |-> w.kv[j].k \o WireKeyTrace(w.kv[j].v)])
      [] w.t = "array" -> Flatten([j \in DOMAIN w.a |-> WireKeyTrace(w.a[j])])
      [] OTHER -> <<>>

RECURSIVE SortedKeyTrace(_)
\* the keys of w and of the maps in it, each map's in ascending order
SortedKeyTrace(w) ==
    CASE w.t = "map" ->
            LET ks == Ascending({w.kv[j].k : j \in DOMAIN w.kv})
                val(k) == w.kv[CHOOSE j \in DOMAIN w.kv : w.kv[j].k = k].v
            IN Flatten([j \in DOMAIN ks |-> ks[j] \o SortedKeyTrace(val(ks[j]))])
      [] w.t = "array" -> Flatten([j \in DOMAIN w.a |-> SortedKeyTrace(w.a[j])])
      [] OTHER -> <<>>

\* C9, as claimed: the keys of a map rendered as JSON, at the top or
\* nested in an array or a map, appear in the order they were received in,
\* unsorted.
C9_KeysInReceivedOrder ==
    (fvPc \in {"one", "two"} /\ fvIn.t \in {"map", "array"} /\ IsKeyProbe(fvIn)) =>
        KeysInText(fvOut1) = WireKeyTrace(fvIn)

\* C9, as amended: the keys of a map rendered as JSON, at the top or nested
\* in an array or a map, appear in ascending byte order whatever order
\* they were received in: the order of the CSV columns.
C9_KeysSorted ==
    (fvPc \in {"one", "two"} /\ fvIn.t \in {"map", "array"} /\ IsKeyProbe(fvIn)) =>
        KeysInText(fvOut1) = SortedKeyTrace(fvIn)

C9_Witness ==
    /\ fvPc = "two" /\ fvIn.t = "map" /\ IsKeyProbe(fvIn)
    /\ \E j \in DOMAIN fvIn.kv : fvIn.kv[j].v.t = "map"
    /\ WireKeyTrace(fvIn) # SortedKeyTrace(fvIn)
    /\ KeysInText(fvOut1) = SortedKeyTrace(fvIn)

\* C10: the file is created only once the stream is drained without an
\* error; while documents are read nothing is written and no file is
\* touched; the first row written is the header and every later row is
\* the row of the next document read, with a cell for every column of
\* that one header.
C10_PhasesOrdered ==
    /\ created => (iterState = "done" /\ Len(docs) > 0 /\ epc # "read")
    /\ epc = "read" => (headers = <<>> /\ i = 0)
    /\ (epc # "idle" /\ ~created) => (wbuf = <<>> /\ fs = fsAtCall)
    /\ epc = "header" => Written = <<>>
    /\ created =>
          /\ Len(Written) <= Len(docs) + 1
          /\ Written # <<>> => Written[1] = headers
          /\ \A k \in 2..Len(Written) :
                /\ Len(Written[k]) = Len(headers)
                /\ Written[k][1] = docs[k - 1].id
                /\ \A j \in 2..Len(headers) :
                      Written[k][j] = ExpectedCell(docs[k - 1], headers[j])

C10_Witness ==
    /\ epc = "rows" /\ i = 2 /\ Len(docs) = 2
    /\ Len(fs[name].rows) = 2 /\ Len(wbuf) = 1
    /\ Len(headers) = 4
    /\ \E k \in 2..3 : \E j \in 2..4 : Written[k][j] = <<>>

\* exportCollection is still in its read loop
Reading == epc \in {"read", "lock", "store", "unlock"}

\* the spinner of call k was started once, its Stop never closed a closed
\* channel, and Stop was called exactly once as soon as the read loop of
\* its exportCollection was left
StoppedOnce(k) ==
    /\ sp[k].starts = 1
    /\ ~sp[k].panicked
    /\ sp[k].done <=> sp[k].stops = 1
    /\ sp[k].stops = IF k = Cur /\ Reading THEN 0 ELSE 1

\* s.suffix is written and copied only by the holder of the mutex
UnderMutex(k) ==
    /\ (k = Cur /\ epc \in {"store", "unlock"}) <=> sp[k].mu = "main"
    /\ sp[k].gpc \in {"read", "unlock"} <=> sp[k].mu = "spin"
    /\ sp[k].seen \in {NoSuffix} \cup {SuffixText(calls[k], c) : c \in 0..MaxDocs}

\* the goroutine of spinner k has returned, or the process has ended
Terminated(k) ==
    k \in DOMAIN sp /\ (sp[k].gpc = "exited" \/ exit # "running")

\* C11: on every path through exportCollection the spinner is started once
\* and stopped exactly once, so its done channel is never closed twice;
\* SetSuffix and the goroutine touch the suffix only under the mutex; and
\* once Stop was called the goroutine eventually terminates.
C11_SpinnerStoppedOnce ==
    /\ [](Len(sp) = Len(calls) /\ (epc = "idle" <=> pc # "export"))
    /\ [](\A k \in DOMAIN sp : StoppedOnce(k) /\ UnderMutex(k))
    /\ \A k \in SpinnerIds :
          (k \in DOMAIN sp /\ sp[k].done) ~> Terminated(k)

\* a failed write: Stop was called once, the goroutine had copied a suffix
\* that SetSuffix stored, and it has returned while the process still runs
C11_Witness ==
    /\ epc = "ret" /\ r.err = "writing row" /\ exit = "running"
    /\ sp[1].stops = 1 /\ sp[1].done
    /\ sp[1].gpc = "exited"
    /\ sp[1].seen = SuffixText(name, 2)

====
